---- MODULE Spec2Model ----
(***************************************************************************)
(* Model of apps/worker/scripts/instaloader_extract.py: the command-line   *)
(* adapter main() and the extractor extract_post_data().  One behaviour is *)
(* one process: main() parses its command line, calls extract_post_data    *)
(* once, prints the result and exits.  The remote service, the library     *)
(* client and the downloads are the environment: each call into them       *)
(* either returns or raises one of the exceptions listed below.            *)
(*                                                                         *)
(* A URL is a sequence of tokens; the tokens "/", "p", "reel" and "?"      *)
(* spell the markers the code looks for, the others are opaque text that   *)
(* contains neither "/" nor "?".  Optional[str] is a sequence of at most   *)
(* one string: <<>> is None.  Local calls (Instaloader(), mkdtemp,         *)
(* os.path.join, json.dumps) are taken to return normally.  The result     *)
(* fields text, author, author_url, hashtags, like_count, comment_count    *)
(* and timestamp are read from the post but not represented.               *)
(***************************************************************************)
EXTENDS Integers, Sequences, FiniteSets, TLC

\* ---------------------------------------------------------------- bounds
MaxUrlParts == 2
MaxNodes == 3

\* ------------------------------------------------------------ python core
None == <<>>

Truthy(o) == o # None /\ o[1] # ""

PyOr(a, b) == IF Truthy(a) THEN a ELSE b

\* index of the first occurrence of sub in s, 0 when there is none
Find(s, sub) ==
    LET hits == {i \in 1..(Len(s) - Len(sub) + 1) : SubSeq(s, i, i + Len(sub) - 1) = sub}
    IN IF hits = {} THEN 0 ELSE CHOOSE i \in hits : \A j \in hits : i <= j

Contains(s, sub) == Find(s, sub) # 0

RECURSIVE Split(_, _)
Split(s, sep) ==
    LET i == Find(s, sep)
    IN IF i = 0 THEN <<s>>
       ELSE <<SubSeq(s, 1, i - 1)>> \o Split(SubSeq(s, i + Len(sep), Len(s)), sep)

\* ------------------------------------------------------------------ inputs
Marker_p == <<"/", "p", "/">>
Marker_reel == <<"/", "reel", "/">>

UrlChunks ==
    { Marker_p, Marker_reel, Marker_p \o <<"ABC123">>, Marker_reel \o <<"XYZ789">>,
      <<"/">>, <<"?">> }

RECURSIVE UrlsOf(_)
UrlsOf(n) ==
    IF n = 0 THEN {<<>>}
    ELSE LET shorter == UrlsOf(n - 1)
         IN shorter \cup {u \o c : u \in shorter, c \in UrlChunks}

Urls == UrlsOf(MaxUrlParts)

OptStrings == {None, <<"">>, <<"alice">>}

ArgvOutcomes == {"usage_error", "help"}

LoginExceptions ==
    {"BadCredentialsException", "TwoFactorAuthRequiredException", "ConnectionException"}

FetchExceptions ==
    {"PostNotFoundException", "PrivateProfileNotFollowedException", "ConnectionException"}

FieldExceptions == {"KeyError"}

DownloadExceptions == {"URLError"}

\* every exception the environment raises is a subclass of Exception
ExceptionSubclasses ==
    LoginExceptions \cup FetchExceptions \cup FieldExceptions \cup DownloadExceptions

NodeSeqs == UNION {[1..n -> [is_video : BOOLEAN]] : n \in 1..MaxNodes}

Posts ==
    { [typename |-> "GraphImage", is_video |-> FALSE, nodes |-> <<>>],
      [typename |-> "GraphVideo", is_video |-> TRUE, nodes |-> <<>>] }
    \cup { [typename |-> "GraphSidecar", is_video |-> v, nodes |-> ns] :
             v \in BOOLEAN, ns \in NodeSeqs }

NoPost == [typename |-> "", is_video |-> FALSE, nodes |-> <<>>]

\* ------------------------------------------------------------------- state
VARIABLES
    pc,               \* position of the process
    url, username, password,   \* arguments of extract_post_data
    shortcode,        \* local shortcode (None until assigned)
    temp_dir,         \* local temp_dir (None until assigned)
    filesystem,       \* directories that exist under the temp root
    mkdtemp_calls,    \* number of tempfile.mkdtemp calls
    post,             \* the Post object returned by the library
    image_urls, video_urls, idx, downloaded_media,
    net,              \* network operations issued, in order
    raised,           \* exceptions raised during the call, in order
    returned,         \* values returned by extract_post_data
    stdout, stderr, exit_code

vars ==
    << pc, url, username, password, shortcode, temp_dir, filesystem, mkdtemp_calls,
       post, image_urls, video_urls, idx, downloaded_media, net, raised, returned,
       stdout, stderr, exit_code >>

NotExited == 0 - 1

Init ==
    /\ pc = "start"
    /\ url = <<>>
    /\ username = None
    /\ password = None
    /\ shortcode = None
    /\ temp_dir = None
    /\ filesystem = {}
    /\ mkdtemp_calls = 0
    /\ post = NoPost
    /\ image_urls = <<>>
    /\ video_urls = <<>>
    /\ idx = 0
    /\ downloaded_media = <<>>
    /\ net = <<>>
    /\ raised = <<>>
    /\ returned = <<>>
    /\ stdout = <<>>
    /\ stderr = <<>>
    /\ exit_code = NotExited


\* --------------------------------------------------------- result payloads
Err(msg, arg) == [success |-> FALSE, error |-> [msg |-> msg, arg |-> arg]]

\* except-clauses: each yields the value returned, or reports the exception
\* as not caught by it
Caught(r) == [caught |-> TRUE, result |-> r]
NotCaught == [caught |-> FALSE]

\* no outer try: the exception leaves the function
OuterExcept_NoOuterTry(e) == NotCaught

OuterExcept(e) ==
    IF e \in ExceptionSubclasses
    THEN Caught(Err("Instaloader extraction failed: ", <<e>>))
    ELSE NotCaught

LoginExcept(e) ==
    IF e = "BadCredentialsException"
    THEN Caught(Err("Invalid Instagram credentials", <<>>))
    ELSE IF e = "TwoFactorAuthRequiredException"
    THEN Caught(Err("Two-factor authentication required. Please use Instagram Basic Display API instead.", <<>>))
    ELSE OuterExcept(e)

InnerExcept(e) ==
    IF e = "PostNotFoundException"
    THEN Caught(Err("Post not found. It may be private or deleted.", <<>>))
    ELSE IF e = "PrivateProfileNotFollowedException"
    THEN Caught(Err("Post is from a private profile that you don't follow. Login required.", <<>>))
    ELSE IF e \in ExceptionSubclasses
    THEN Caught(Err("Failed to extract post: ", <<e>>))
    ELSE OuterExcept(e)

\* no try inside the loop: a failed download reaches the inner except-clauses
DownloadExcept_NoLoopTry(e) == "propagate"

\* the except-clause inside each download loop: warn and go on
DownloadExcept(e) ==
    IF e \in ExceptionSubclasses THEN "warn_and_continue" ELSE "propagate"

\* the rmtree of the finally-clause left in
Finally_Rmtree(fs, dir) == fs \ {dir}

\* the finally-clause of the inner try: pass (the rmtree is commented out)
Finally(fs, dir) == fs

\* "or" for "and"
LoginWanted_Either(u, p) == Truthy(u) \/ Truthy(p)

LoginWanted(u, p) == Truthy(u) /\ Truthy(p)

\* url.split(marker)[1].split("/")[0].split("?")[0]
SegmentAfter(u, marker) == Split(Split(Split(u, marker)[2], <<"/">>)[1], <<"?">>)[1]

ExtractShortcode(u) ==
    IF Contains(u, Marker_p)
    THEN [branch |-> "p", shortcode |-> SegmentAfter(u, Marker_p)]
    ELSE IF Contains(u, Marker_reel)
    THEN [branch |-> "reel", shortcode |-> SegmentAfter(u, Marker_reel)]
    ELSE [branch |-> "else", shortcode |-> None]

\* ExtractShortcode tabulated over the URLs a run can be given
ShortcodeOf == [u \in Urls |-> ExtractShortcode(u)]

MediaUrl(node, attr) == [node |-> node, attr |-> attr]

RECURSIVE SidecarLoop(_, _, _, _)
SidecarLoop(nodes, i, imgs, vids) ==
    IF i > Len(nodes) THEN [image_urls |-> imgs, video_urls |-> vids]
    ELSE IF nodes[i].is_video
    THEN SidecarLoop(nodes, i + 1, imgs, Append(vids, MediaUrl(i, "video_url")))
    ELSE SidecarLoop(nodes, i + 1, Append(imgs, MediaUrl(i, "display_url")), vids)

CollectMedia(p) ==
    IF p.is_video
    THEN [image_urls |-> <<>>, video_urls |-> <<MediaUrl(0, "video_url")>>]
    ELSE IF p.typename = "GraphSidecar"
    THEN SidecarLoop(p.nodes, 1, <<>>, <<>>)
    ELSE [image_urls |-> <<MediaUrl(0, "url")>>, video_urls |-> <<>>]

\* the loop index used without the + 1
ImageFilename_ZeroBased(i) == "image_" \o ToString(i) \o ".jpg"

ImageFilename(i) == "image_" \o ToString(i + 1) \o ".jpg"
VideoFilename(i) == "video_" \o ToString(i + 1) \o ".mp4"

\* tempfile.mkdtemp(prefix="instaloader_"): a directory that did not exist
Mkdtemp(n) == "/tmp/instaloader_" \o ToString(n + 1)

PathJoin(dir, name) == dir \o "/" \o name

MediaEntry(type, u, dir, filename) ==
    [type |-> type, url |-> u, local_path |-> PathJoin(dir, filename), filename |-> filename]

IsReel(p, u) == p.is_video /\ Contains(u, Marker_reel)

SuccessResult(p, u, sc, imgs, vids, media) ==
    [ success |-> TRUE,
      is_reel |-> IsReel(p, u),
      is_video |-> p.is_video,
      image_urls |-> imgs,
      video_urls |-> vids,
      media_files |-> media,
      shortcode |-> sc,
      post_url |-> <<"https://www.instagram.com">> \o Marker_p \o sc \o <<"/">> ]

\* the sys.exit(1) forgotten
ExitCode_AlwaysZero(r) == 0

ExitCode(r) == IF r.success THEN 0 ELSE 1

\* ----------------------------------------------------------------- actions
\* a return statement of extract_post_data, or an exception leaving it
Leave(h) ==
    IF h.caught
    THEN /\ returned' = Append(returned, h.result)
         /\ pc' = "returned"
    ELSE /\ returned' = returned
         /\ pc' = "uncaught"

\* main: parser.parse_args() ends the process itself
Main_ArgparseExit ==
    /\ pc = "start"
    /\ \E o \in ArgvOutcomes :
         IF o = "help"
         THEN /\ stdout' = Append(stdout, [kind |-> "help"])
              /\ stderr' = stderr
              /\ exit_code' = 0
         ELSE /\ stdout' = stdout
              /\ stderr' = Append(stderr, [kind |-> "usage"])
              /\ exit_code' = 2
    /\ pc' = "exited"
    /\ UNCHANGED << url, username, password, shortcode, temp_dir, filesystem,
                    mkdtemp_calls, post, image_urls, video_urls, idx,
                    downloaded_media, net, raised, returned >>

\* main: arguments parsed, credentials resolved, extract_post_data entered
Main_Call ==
    /\ pc = "start"
    /\ \E u \in Urls, au \in OptStrings, ap \in OptStrings,
          eu \in OptStrings, ep \in OptStrings :
         /\ url' = u
         /\ username' = PyOr(au, eu)
         /\ password' = PyOr(ap, ep)
    /\ pc' = "login"
    /\ UNCHANGED << shortcode, temp_dir, filesystem, mkdtemp_calls, post, image_urls,
                    video_urls, idx, downloaded_media, net, raised, returned,
                    stdout, stderr, exit_code >>

Login ==
    /\ pc = "login"
    /\ LoginWanted(username, password)
    /\ \E o \in {"ok"} \cup LoginExceptions :
         /\ net' = Append(net, [op |-> "login", ok |-> o = "ok"])
         /\ IF o = "ok"
            THEN /\ pc' = "shortcode"
                 /\ UNCHANGED << raised, returned >>
            ELSE /\ raised' = Append(raised, [at |-> "login", exc |-> o])
                 /\ Leave(LoginExcept(o))
    /\ UNCHANGED << url, username, password, shortcode, temp_dir, filesystem,
                    mkdtemp_calls, post, image_urls, video_urls, idx,
                    downloaded_media, stdout, stderr, exit_code >>

SkipLogin ==
    /\ pc = "login"
    /\ ~LoginWanted(username, password)
    /\ pc' = "shortcode"
    /\ UNCHANGED << url, username, password, shortcode, temp_dir, filesystem,
                    mkdtemp_calls, post, image_urls, video_urls, idx,
                    downloaded_media, net, raised, returned, stdout, stderr, exit_code >>

\* lines 72-92: shortcode extraction, the two format errors, mkdtemp
ShortcodeStep(x, dir) ==
    IF x.branch = "else"
    THEN /\ Leave(Caught(Err("Invalid Instagram URL format: ", url)))
         /\ UNCHANGED << shortcode, temp_dir, filesystem, mkdtemp_calls >>
    ELSE IF Len(x.shortcode) = 0
    THEN /\ shortcode' = x.shortcode
         /\ Leave(Caught(Err("Could not extract shortcode from URL", <<>>)))
         /\ UNCHANGED << temp_dir, filesystem, mkdtemp_calls >>
    ELSE /\ shortcode' = x.shortcode
         /\ temp_dir' = <<dir>>
         /\ filesystem' = filesystem \cup {dir}
         /\ mkdtemp_calls' = mkdtemp_calls + 1
         /\ pc' = "fetch"
         /\ returned' = returned

Shortcode ==
    /\ pc = "shortcode"
    /\ ShortcodeStep(ShortcodeOf[url], Mkdtemp(mkdtemp_calls))
    /\ UNCHANGED << url, username, password, post, image_urls, video_urls, idx,
                    downloaded_media, net, raised, stdout, stderr, exit_code >>

\* line 96: Post.from_shortcode
Fetch ==
    /\ pc = "fetch"
    /\ \/ \E p \in Posts :
            /\ post' = p
            /\ net' = Append(net, [op |-> "from_shortcode", arg |-> shortcode, ok |-> TRUE])
            /\ pc' = "derive"
            /\ UNCHANGED << raised, returned, filesystem >>
       \/ \E e \in FetchExceptions :
            /\ post' = post
            /\ net' = Append(net, [op |-> "from_shortcode", arg |-> shortcode, ok |-> FALSE])
            /\ raised' = Append(raised, [at |-> "from_shortcode", exc |-> e])
            /\ Leave(InnerExcept(e))
            /\ filesystem' = Finally(filesystem, temp_dir[1])
    /\ UNCHANGED << url, username, password, shortcode, temp_dir, mkdtemp_calls,
                    image_urls, video_urls, idx, downloaded_media,
                    stdout, stderr, exit_code >>

\* lines 98-129: the post's fields are read and the media URLs collected
Derive ==
    /\ pc = "derive"
    /\ \/ LET m == CollectMedia(post)
          IN /\ image_urls' = m.image_urls
             /\ video_urls' = m.video_urls
             /\ pc' = "download_images"
             /\ UNCHANGED << raised, returned, filesystem >>
       \/ \E e \in FieldExceptions :
            /\ raised' = Append(raised, [at |-> "fields", exc |-> e])
            /\ Leave(InnerExcept(e))
            /\ filesystem' = Finally(filesystem, temp_dir[1])
            /\ UNCHANGED << image_urls, video_urls >>
    /\ idx' = 0
    /\ downloaded_media' = <<>>
    /\ UNCHANGED << url, username, password, shortcode, temp_dir, mkdtemp_calls,
                    post, net, stdout, stderr, exit_code >>

\* one iteration of a download loop over urls
DownloadStep(type, urls, filename) ==
    \E o \in {"ok"} \cup DownloadExceptions :
      /\ net' = Append(net, [op |-> "urlretrieve", url |-> urls[idx + 1], ok |-> o = "ok"])
      /\ IF o = "ok"
         THEN /\ downloaded_media' =
                    Append(downloaded_media,
                           MediaEntry(type, urls[idx + 1], temp_dir[1], filename))
              /\ idx' = idx + 1
              /\ UNCHANGED << pc, raised, returned, stderr, filesystem >>
         ELSE /\ raised' = Append(raised, [at |-> "urlretrieve", exc |-> o])
              /\ downloaded_media' = downloaded_media
              /\ IF DownloadExcept(o) = "warn_and_continue"
                 THEN /\ stderr' = Append(stderr, [kind |-> "warning", type |-> type, n |-> idx + 1])
                      /\ idx' = idx + 1
                      /\ UNCHANGED << pc, returned, filesystem >>
                 ELSE /\ Leave(InnerExcept(o))
                      /\ filesystem' = Finally(filesystem, temp_dir[1])
                      /\ UNCHANGED << stderr, idx >>

DownloadImage ==
    /\ pc = "download_images"
    /\ idx < Len(image_urls)
    /\ DownloadStep("image", image_urls, ImageFilename(idx))
    /\ UNCHANGED << url, username, password, shortcode, temp_dir, mkdtemp_calls,
                    post, image_urls, video_urls, stdout, exit_code >>

ImagesDone ==
    /\ pc = "download_images"
    /\ idx = Len(image_urls)
    /\ pc' = "download_videos"
    /\ idx' = 0
    /\ UNCHANGED << url, username, password, shortcode, temp_dir, filesystem,
                    mkdtemp_calls, post, image_urls, video_urls, downloaded_media,
                    net, raised, returned, stdout, stderr, exit_code >>

DownloadVideo ==
    /\ pc = "download_videos"
    /\ idx < Len(video_urls)
    /\ DownloadStep("video", video_urls, VideoFilename(idx))
    /\ UNCHANGED << url, username, password, shortcode, temp_dir, mkdtemp_calls,
                    post, image_urls, video_urls, stdout, exit_code >>

\* lines 168-187: the result is assembled (more fields of the post are read)
Assemble ==
    /\ pc = "download_videos"
    /\ idx = Len(video_urls)
    /\ \/ /\ Leave(Caught(SuccessResult(post, url, shortcode, image_urls,
                                        video_urls, downloaded_media)))
          /\ raised' = raised
       \/ \E e \in FieldExceptions :
            /\ raised' = Append(raised, [at |-> "fields", exc |-> e])
            /\ Leave(InnerExcept(e))
    /\ filesystem' = Finally(filesystem, temp_dir[1])
    /\ UNCHANGED << url, username, password, shortcode, temp_dir, mkdtemp_calls,
                    post, image_urls, video_urls, idx, downloaded_media, net,
                    stdout, stderr, exit_code >>

\* main, lines 231-236: print the JSON document and exit
Main_Print ==
    /\ pc = "returned"
    /\ LET result == returned[Len(returned)]
       IN /\ stdout' = Append(stdout, [kind |-> "json", doc |-> result])
          /\ exit_code' = ExitCode(result)
    /\ pc' = "exited"
    /\ UNCHANGED << url, username, password, shortcode, temp_dir, filesystem,
                    mkdtemp_calls, post, image_urls, video_urls, idx,
                    downloaded_media, net, raised, returned, stderr >>

Next ==
    \/ Main_ArgparseExit
    \/ Main_Call
    \/ Login
    \/ SkipLogin
    \/ Shortcode
    \/ Fetch
    \/ Derive
    \/ DownloadImage
    \/ ImagesDone
    \/ DownloadVideo
    \/ Assemble
    \/ Main_Print

Spec == Init /\ [][Next]_vars


\* ------------------------------------------------- vocabulary of the claims
Occurs(u, m) ==
    \E i \in 1..Len(u) :
        /\ i + Len(m) - 1 <= Len(u)
        /\ \A k \in 1..Len(m) : u[i + k - 1] = m[k]

HasMarker(u) == Occurs(u, Marker_p) \/ Occurs(u, Marker_reel)

\* extract_post_data has been entered
Called == pc # "start" /\ ~(pc = "exited" /\ Len(returned) = 0)

\* extract_post_data has returned
HasResult == Len(returned) = 1

Result == returned[1]

Failed(msg) == HasResult /\ ~Result.success /\ Result.error.msg = msg

IsOp(n, op) == n.op = op

IsLogin(n) == IsOp(n, "login")
IsFetch(n) == IsOp(n, "from_shortcode")
IsDownload(n) == IsOp(n, "urlretrieve")
IsGoodDownload(n) == IsDownload(n) /\ n.ok

Logins == SelectSeq(net, IsLogin)
Fetches == SelectSeq(net, IsFetch)
Downloads == SelectSeq(net, IsDownload)
GoodDownloads == SelectSeq(net, IsGoodDownload)

RaisedAt(w) == {i \in 1..Len(raised) : raised[i].at = w}

\* Post.from_shortcode returned and every read of the post's fields returned
MetadataOk ==
    /\ Len(Fetches) = 1
    /\ Fetches[1].ok
    /\ RaisedAt("fields") = {}

BothSupplied ==
    /\ username # <<>> /\ username[1] # ""
    /\ password # <<>> /\ password[1] # ""

\* ------------------------------------------------------------------- C1
\* C1: a call whose URL has neither "/p/" nor "/reel/" issues no network
\* operation (login, metadata fetch, download) and returns the
\* "Invalid Instagram URL format" error, whatever the credentials.
C1_MalformedUrlNoNetwork ==
    (Called /\ ~HasMarker(url)) =>
        /\ Len(net) = 0
        /\ HasResult => Failed("Invalid Instagram URL format: ")

\* ------------------------------------------------------------------- C2
\* C2: once the metadata has been fetched and read, whatever downloads fail,
\* the call returns a success result, every collected URL has been attempted
\* in order (images, then videos), and media_files holds exactly one entry
\* per download that succeeded, none for one that failed.
C2_DownloadFailuresAreNotFatal ==
    (HasResult /\ MetadataOk) =>
        /\ Result.success
        /\ Len(Downloads) = Len(Result.image_urls) + Len(Result.video_urls)
        /\ \A i \in 1..Len(Downloads) :
              Downloads[i].url = (Result.image_urls \o Result.video_urls)[i]
        /\ Len(Result.media_files) = Len(GoodDownloads)
        /\ \A i \in 1..Len(GoodDownloads) :
              Result.media_files[i].url = GoodDownloads[i].url

C2_Witness ==
    /\ HasResult /\ Result.success
    /\ Len(Downloads) = 3
    /\ ~Downloads[2].ok
    /\ Len(GoodDownloads) = 2
    /\ Len(Result.media_files) = 2

\* ------------------------------------------------------------------- C3
\* C3: in a success result is_reel implies is_video and "/reel/" in the URL,
\* and a request resolved from the "/p/" marker (a URL that contains "/p/",
\* with or without "/reel/") never has is_reel.
C3_ReelOnlyViaReelMarker ==
    (HasResult /\ Result.success) =>
        /\ Result.is_reel => (Result.is_video /\ Occurs(url, Marker_reel))
        /\ Occurs(url, Marker_p) => ~Result.is_reel

\* ------------------------------------------------------------------- C4
\* C4: for a carousel, whatever post.is_video, image_urls is the display URLs
\* of the non-video children and video_urls the video URLs of the video
\* children, both in child order; a single video gives one video URL only, a
\* single image one image URL only.
GroupOf(urls, nodes, attr, isVideo) ==
    /\ \A k \in 1..Len(urls) :
          /\ urls[k].attr = attr
          /\ urls[k].node \in 1..Len(nodes)
          /\ nodes[urls[k].node].is_video = isVideo
    /\ \A k \in 1..(Len(urls) - 1) : urls[k].node < urls[k + 1].node
    /\ \A n \in 1..Len(nodes) :
          nodes[n].is_video = isVideo => \E k \in 1..Len(urls) : urls[k].node = n

C4_MediaUrlCollection ==
    (HasResult /\ Result.success) =>
        IF post.typename = "GraphSidecar"
        THEN /\ GroupOf(Result.image_urls, post.nodes, "display_url", FALSE)
             /\ GroupOf(Result.video_urls, post.nodes, "video_url", TRUE)
             /\ Len(Result.image_urls) + Len(Result.video_urls) = Len(post.nodes)
        ELSE IF post.is_video
        THEN /\ Result.video_urls = <<MediaUrl(0, "video_url")>>
             /\ Result.image_urls = <<>>
        ELSE /\ Result.image_urls = <<MediaUrl(0, "url")>>
             /\ Result.video_urls = <<>>

\* ------------------------------------------------------------------- C5
\* C5: for a URL with a marker the identifier fetched is the segment that
\* follows the marker ("/p/" first, else "/reel/"; its first occurrence),
\* cut at the next "/" or "?"; when that segment is empty the call returns a
\* format error and no metadata fetch is issued.
FirstAt(u, m) ==
    CHOOSE i \in 1..Len(u) :
        /\ SubSeq(u, i, i + Len(m) - 1) = m
        /\ \A j \in 1..(i - 1) : SubSeq(u, j, j + Len(m) - 1) # m

UsedMarker(u) == IF Occurs(u, Marker_p) THEN Marker_p ELSE Marker_reel

SegmentStart(u) == FirstAt(u, UsedMarker(u)) + Len(UsedMarker(u))

SegmentEnd(u) ==
    LET cuts == {j \in SegmentStart(u)..Len(u) : u[j] \in {"/", "?"}}
    IN IF cuts = {} THEN Len(u)
       ELSE (CHOOSE j \in cuts : \A k \in cuts : j <= k) - 1

Segment(u) == SubSeq(u, SegmentStart(u), SegmentEnd(u))

C5_IdentifierIsSegmentAfterMarker ==
    (Called /\ HasMarker(url)) =>
        /\ \A i \in 1..Len(Fetches) :
              Fetches[i].arg = Segment(url) /\ Len(Segment(url)) > 0
        /\ Len(Segment(url)) = 0 =>
              /\ Len(Fetches) = 0
              /\ HasResult =>
                    \/ Failed("Could not extract shortcode from URL")
                    \/ Failed("Invalid Instagram URL format: ")


\* ------------------------------------------------------------------- C6
\* C6: every call ends by returning exactly one structured result (success,
\* or an error carrying a message); no exception raised by login, fetch, a
\* field read or a download leaves extract_post_data; a login failure other
\* than bad credentials / two-factor gives the generic extraction failure,
\* any other failure of the fetch or of a field read the generic fetch
\* failure; and the process is never stuck short of its exit.
Structured(r) ==
    /\ r.success \in BOOLEAN
    /\ r.success => Len(r.shortcode) > 0
    /\ ~r.success => r.error.msg # ""

C6_Safe ==
    /\ pc # "uncaught"
    /\ Len(returned) <= 1
    /\ (Called /\ pc \in {"returned", "exited"}) => (HasResult /\ Structured(Result))
    /\ HasResult =>
          /\ \A i \in RaisedAt("login") :
                raised[i].exc \notin {"BadCredentialsException", "TwoFactorAuthRequiredException"}
                    => (Failed("Instaloader extraction failed: ") /\ Result.error.arg = <<raised[i].exc>>)
          /\ \A i \in RaisedAt("from_shortcode") \cup RaisedAt("fields") :
                raised[i].exc \notin {"PostNotFoundException", "PrivateProfileNotFollowedException"}
                    => (Failed("Failed to extract post: ") /\ Result.error.arg = <<raised[i].exc>>)
          /\ \A i \in RaisedAt("urlretrieve") : raised[i].exc \in ExceptionSubclasses

\* at every position short of the exit, the step of that position can be taken
C6_NotStuck ==
    CASE pc = "start" -> ENABLED Main_ArgparseExit
      [] pc = "login" -> ENABLED (Login \/ SkipLogin)
      [] pc = "shortcode" -> ENABLED Shortcode
      [] pc = "fetch" -> ENABLED Fetch
      [] pc = "derive" -> ENABLED Derive
      [] pc = "download_images" -> ENABLED (DownloadImage \/ ImagesDone)
      [] pc = "download_videos" -> ENABLED (DownloadVideo \/ Assemble)
      [] pc = "returned" -> ENABLED Main_Print
      [] pc = "exited" -> TRUE
      [] OTHER -> FALSE

C6_AlwaysOneStructuredResult == C6_Safe /\ C6_NotStuck

C6_Witness ==
    /\ pc = "exited"
    /\ RaisedAt("login") # {}
    /\ Failed("Instaloader extraction failed: ")

\* ------------------------------------------------------------------- C7
\* C7: login is attempted exactly when username and password are both
\* non-empty; otherwise no authentication call is made and the result is
\* never the invalid-credentials or the two-factor error.
C7_LoginIffBothSupplied ==
    Called =>
        /\ pc = "login" => Len(Logins) = 0
        /\ pc # "login" => Len(Logins) = (IF BothSupplied THEN 1 ELSE 0)
        /\ ~BothSupplied =>
              /\ ~Failed("Invalid Instagram credentials")
              /\ ~Failed("Two-factor authentication required. Please use Instagram Basic Display API instead.")

C7_Witness ==
    /\ HasResult
    /\ username = <<"alice">>
    /\ password \in {None, <<"">>}
    /\ Len(Logins) = 0
    /\ Len(Fetches) = 1

\* ------------------------------------------------------------------- C8
\* C8 as stated: every run of main prints exactly one JSON document, the
\* result of extract_post_data, and exits 0 if the result is a success and
\* 1 otherwise.
C8_EveryRunPrintsOneJson ==
    pc = "exited" =>
        /\ HasResult
        /\ Len(stdout) = 1
        /\ stdout[1].kind = "json"
        /\ exit_code = (IF HasResult /\ Result.success THEN 0 ELSE 1)

\* C8 as amended: every run of main whose command line parse_args accepts
\* prints exactly one JSON document, the result of extract_post_data, and
\* exits 0 if the result is a success and 1 otherwise; nothing is printed on
\* stdout before that.
C8_ParsedRunPrintsOneJson ==
    /\ (pc = "exited" /\ HasResult) =>
          /\ Len(stdout) = 1
          /\ stdout[1].kind = "json"
          /\ stdout[1].doc = Result
          /\ exit_code = (IF Result.success THEN 0 ELSE 1)
    /\ pc # "exited" => (Len(stdout) = 0 /\ exit_code = NotExited)

C8_Witness ==
    /\ pc = "exited"
    /\ Failed("Post not found. It may be private or deleted.")
    /\ Len(stdout) = 1
    /\ exit_code = 1

\* ------------------------------------------------------------------- C9
\* C9 as stated: every call that returns, with a success or with any error,
\* has created exactly one temporary directory, and it still exists.
C9_OneTempDirEveryCall ==
    HasResult => (mkdtemp_calls = 1 /\ Cardinality(filesystem) = 1)

\* C9 as amended: a call creates at most one temporary directory: exactly
\* one when it gets as far as the metadata fetch (success, post-not-found,
\* private-profile, generic fetch failure) and none when it ends before
\* (invalid-credentials, two-factor-required, generic extraction failure,
\* malformed-url, empty identifier); a directory created is never deleted.
EndedAfterMkdtemp ==
    \/ Result.success
    \/ Failed("Post not found. It may be private or deleted.")
    \/ Failed("Post is from a private profile that you don't follow. Login required.")
    \/ Failed("Failed to extract post: ")

C9_TempDirOnlyPastShortcode ==
    /\ mkdtemp_calls <= 1
    /\ Cardinality(filesystem) = mkdtemp_calls
    /\ temp_dir # None => temp_dir[1] \in filesystem
    /\ HasResult => mkdtemp_calls = (IF EndedAfterMkdtemp THEN 1 ELSE 0)

C9_Witness ==
    /\ pc = "exited"
    /\ Failed("Post not found. It may be private or deleted.")
    /\ mkdtemp_calls = 1
    /\ filesystem = {"/tmp/instaloader_1"}

\* ------------------------------------------------------------------ C10
\* C10: in a success result an image entry is named image_<n>.jpg and a
\* video entry video_<n>.mp4, n the 1-based position of its url in
\* image_urls / video_urls (no renumbering after a failed download); image
\* entries come before video entries, each group in increasing n; filenames
\* and local paths are pairwise distinct.
Position(urls, u) == CHOOSE n \in 1..Len(urls) : urls[n] = u

EntryN(r, e) ==
    IF e.type = "image" THEN Position(r.image_urls, e.url) ELSE Position(r.video_urls, e.url)

C10_FilenamesFollowUrlPositions ==
    (HasResult /\ Result.success) =>
        LET m == Result.media_files
        IN /\ \A k \in 1..Len(m) :
                 /\ m[k].type \in {"image", "video"}
                 /\ m[k].type = "image" =>
                       /\ \E n \in 1..Len(Result.image_urls) : Result.image_urls[n] = m[k].url
                       /\ m[k].filename = "image_" \o ToString(EntryN(Result, m[k])) \o ".jpg"
                 /\ m[k].type = "video" =>
                       /\ \E n \in 1..Len(Result.video_urls) : Result.video_urls[n] = m[k].url
                       /\ m[k].filename = "video_" \o ToString(EntryN(Result, m[k])) \o ".mp4"
                 /\ m[k].local_path = temp_dir[1] \o "/" \o m[k].filename
           /\ \A j, k \in 1..Len(m) :
                 j < k =>
                    /\ ~(m[j].type = "video" /\ m[k].type = "image")
                    /\ m[j].type = m[k].type => EntryN(Result, m[j]) < EntryN(Result, m[k])
                    /\ m[j].filename # m[k].filename
                    /\ m[j].local_path # m[k].local_path

C10_Witness ==
    /\ HasResult /\ Result.success
    /\ Len(Result.image_urls) = 3
    /\ Len(Result.media_files) = 2
    /\ Result.media_files[1].filename = "image_2.jpg"
    /\ Result.media_files[2].filename = "image_3.jpg"


\* ------------------------------------------------ what holds in their place
\* With C1: a URL without a marker never leads to a metadata fetch or a
\* download, and gives the format error whenever login raised nothing.
MalformedUrl_NoFetchNoDownload ==
    (Called /\ ~HasMarker(url)) =>
        /\ Len(Fetches) = 0
        /\ Len(Downloads) = 0
        /\ (HasResult /\ RaisedAt("login") = {}) => Failed("Invalid Instagram URL format: ")

\* With C3: is_reel is exactly is_video and "/reel/" in the URL.
IsReel_IffVideoAndReelInUrl ==
    (HasResult /\ Result.success) =>
        (Result.is_reel <=> (Result.is_video /\ Occurs(url, Marker_reel)))

\* With C4: the collection is as C4 says for every post whose is_video is false.
MediaUrlCollection_WhenPostIsNotVideo ==
    (HasResult /\ Result.success /\ ~post.is_video) => C4_MediaUrlCollection

\* With C5: the identifier fetched is always the segment after the marker,
\* an empty segment never leads to a fetch, and it gives the format error
\* whenever login raised nothing.
Identifier_WhenLoginRaisedNothing ==
    (Called /\ HasMarker(url)) =>
        /\ \A i \in 1..Len(Fetches) :
              Fetches[i].arg = Segment(url) /\ Len(Segment(url)) > 0
        /\ Len(Segment(url)) = 0 =>
              /\ Len(Fetches) = 0
              /\ (HasResult /\ RaisedAt("login") = {}) =>
                    Failed("Could not extract shortcode from URL")

====
